---- MODULE Spec2Model ----
(***************************************************************************)
(* Model of the colour completion rule of texlab,                          *)
(* src/features/completion/color.rs: complete_colors(context, builder).    *)
(*                                                                         *)
(* A request carries a parsed document and a caret (the CursorContext).    *)
(* Several evaluations of the rule run over that shared context and the    *)
(* shared LANGUAGE_DATA.colors list, each with its own CompletionBuilder.  *)
(* One evaluation is the straight-line code of complete_colors:            *)
(*   line 11  locate    context.find_curly_group_word()?                   *)
(*   line 12  validate  ColorReference::cast(group.syntax().parent()?)?    *)
(*   14..16   enumerate for name in &LANGUAGE_DATA.colors { builder.color }*)
(*   line 18  return    Some(())                                           *)
(* The locator, the cast and the builder live outside color.rs; they are   *)
(* modelled from their documented contracts.                               *)
(***************************************************************************)
EXTENDS Integers, Sequences, FiniteSets, TLC

\* ---------------------------------------------------------------- bounds
MaxItems  == 2    \* commands / groups in a document
MaxWords  == 2    \* word tokens inside one curly group
WordLen   == 2    \* width of a word token in text units
MaxColors == 2    \* entries of LANGUAGE_DATA.colors
NumEvals  == 2    \* concurrently evaluated rule instances

Evals == 1..NumEvals

\* ------------------------------------------------------------ the document
\* "color"   \color{...}    the group's parent is a COLOR_REFERENCE node
\* "section" \section{...}  the group's parent is a SECTION node
\* "bare"    {...}          the group's parent is the ROOT node
\* "orphan"  {...}          the group is itself the root of the tree: no parent
NestedKinds == {"color", "section", "bare"}

ItemsOf(kinds) == [kind : kinds, words : 0..MaxWords]

\* A document is the sequence of its groups; an orphan group is a whole tree.
Documents ==
    [1..1 -> ItemsOf({"orphan"})] \cup
    UNION {[1..n -> ItemsOf(NestedKinds)] : n \in 1..MaxItems}

ItemCount(d) == Len(d)
ItemAt(d, i) == d[i]

CmdLen(it)   == IF it.kind \in {"color", "section"} THEN 1 ELSE 0
WordsLen(n)  == IF n = 0 THEN 0 ELSE n * WordLen + (n - 1)
ItemLen(it)  == CmdLen(it) + 1 + WordsLen(it.words) + 1

RECURSIVE ItemStart(_, _)
ItemStart(d, i) == IF i = 1 THEN 0
                   ELSE ItemStart(d, i - 1) + ItemLen(ItemAt(d, i - 1))

DocLen(d)       == ItemStart(d, ItemCount(d)) + ItemLen(ItemAt(d, ItemCount(d)))
GroupOpen(d, i) == ItemStart(d, i) + CmdLen(ItemAt(d, i))
GroupClose(d, i) == ItemStart(d, i) + ItemLen(ItemAt(d, i)) - 1

\* the caret sits between the braces of group i
InsideCurly(d, i, pos) == GroupOpen(d, i) < pos /\ pos <= GroupClose(d, i)

NoneVal == [some |-> FALSE]

\* Cursor locator: the group around the caret when it holds exactly one word,
\* with the range of that word.
FindCurlyGroupWord(d, pos) ==
    IF \E i \in 1..ItemCount(d) : InsideCurly(d, i, pos) /\ ItemAt(d, i).words = 1
    THEN LET i == CHOOSE j \in 1..ItemCount(d) :
                      InsideCurly(d, j, pos) /\ ItemAt(d, j).words = 1
         IN  [some  |-> TRUE,
              range |-> <<GroupOpen(d, i) + 1, GroupOpen(d, i) + 1 + WordLen>>,
              group |-> i]
    ELSE NoneVal

\* group.syntax().parent()
Parent(d, g) ==
    CASE ItemAt(d, g).kind = "color"   -> "COLOR_REFERENCE"
      [] ItemAt(d, g).kind = "section" -> "SECTION"
      [] ItemAt(d, g).kind = "bare"    -> "ROOT"
      [] OTHER                         -> "none"

\* latex::ColorReference::cast
ColorReferenceCast(node) == IF node = "COLOR_REFERENCE" THEN node ELSE "none"

\* ------------------------------------------------------------ knowledge base
ColorNames == {"red", "blue"}
ColorLists == UNION {[1..n -> ColorNames] : n \in 0..MaxColors}

\* ---------------------------------------------------------------- collector
Candidate(range, name) == [range |-> range, label |-> name]

\* CompletionBuilder::color
BuilderColor(items, range, name) == Append(items, Candidate(range, name))

\* what a builder may already hold when the rule is called
PriorItems == {<<>>, <<Candidate(<<0, 0>>, "prior")>>}

\* -------------------------------------------------------------------- state
VARIABLES
    doc,        \* the syntax tree of the request
    caret,      \* the caret offset of the request
    colors,     \* LANGUAGE_DATA.colors
    pc,         \* per evaluation: Start, Located, Validated, Enumerated, NotApplicable
    loc,        \* per evaluation: what find_curly_group_word returned
    cls,        \* per evaluation: what the cast returned ("unset" before line 12)
    idx,        \* per evaluation: position of the for loop in colors
    collector,  \* per evaluation: items of its CompletionBuilder
    result,     \* per evaluation: "pending", "Some" or "None"
    pre,        \* history: the builder's items when the call began
    emitted,    \* history: builder.color calls made by the evaluation
    overlap     \* history: a step ran while another evaluation was mid-call

vars == <<doc, caret, colors, pc, loc, cls, idx, collector, result, pre,
          emitted, overlap>>

Terminal == {"Enumerated", "NotApplicable"}

Init ==
    /\ doc \in Documents
    /\ caret \in 0..DocLen(doc)
    /\ colors \in ColorLists
    /\ pc = [e \in Evals |-> "Start"]
    /\ loc = [e \in Evals |-> NoneVal]
    /\ cls = [e \in Evals |-> "unset"]
    /\ idx = [e \in Evals |-> 1]
    /\ collector \in [Evals -> PriorItems]
    /\ result = [e \in Evals |-> "pending"]
    /\ pre = collector
    /\ emitted = [e \in Evals |-> 0]
    /\ overlap = FALSE

MidCall(e) == pc[e] \in {"Located", "Validated"}

Overlaps(e) == overlap \/ \E o \in Evals \ {e} : MidCall(o)

\* Locate with the empty-group fallback: a caret inside any group is accepted,
\* with the empty range at the caret when the group holds no single word.
LocateFallback(e) ==
    /\ pc[e] = "Start"
    /\ LET r == FindCurlyGroupWord(doc, caret)
           f == IF r.some THEN r
                ELSE IF \E i \in 1..ItemCount(doc) : InsideCurly(doc, i, caret)
                THEN [some  |-> TRUE,
                      range |-> <<caret, caret>>,
                      group |-> CHOOSE i \in 1..ItemCount(doc) :
                                    InsideCurly(doc, i, caret)]
                ELSE NoneVal IN
         /\ loc' = [loc EXCEPT ![e] = f]
         /\ IF f.some
            THEN /\ pc' = [pc EXCEPT ![e] = "Located"]
                 /\ result' = result
            ELSE /\ pc' = [pc EXCEPT ![e] = "NotApplicable"]
                 /\ result' = [result EXCEPT ![e] = "None"]
    /\ overlap' = Overlaps(e)
    /\ UNCHANGED <<doc, caret, colors, cls, idx, collector, pre, emitted>>

\* Locate that goes straight to the enumeration, the validation left out.
LocateSkipValidate(e) ==
    /\ pc[e] = "Start"
    /\ LET r == FindCurlyGroupWord(doc, caret) IN
         /\ loc' = [loc EXCEPT ![e] = r]
         /\ IF r.some
            THEN /\ pc' = [pc EXCEPT ![e] = "Validated"]
                 /\ result' = result
            ELSE /\ pc' = [pc EXCEPT ![e] = "NotApplicable"]
                 /\ result' = [result EXCEPT ![e] = "None"]
    /\ overlap' = Overlaps(e)
    /\ UNCHANGED <<doc, caret, colors, cls, idx, collector, pre, emitted>>

\* line 11: let (_, range, group) = context.find_curly_group_word()?;
Locate(e) ==
    /\ pc[e] = "Start"
    /\ LET r == FindCurlyGroupWord(doc, caret) IN
         /\ loc' = [loc EXCEPT ![e] = r]
         /\ IF r.some
            THEN /\ pc' = [pc EXCEPT ![e] = "Located"]
                 /\ result' = result
            ELSE /\ pc' = [pc EXCEPT ![e] = "NotApplicable"]
                 /\ result' = [result EXCEPT ![e] = "None"]
    /\ overlap' = Overlaps(e)
    /\ UNCHANGED <<doc, caret, colors, cls, idx, collector, pre, emitted>>

\* Validate that only asks for a parent and leaves the cast out.
ValidateAnyParent(e) ==
    /\ pc[e] = "Located"
    /\ LET p == Parent(doc, loc[e].group) IN
         /\ cls' = [cls EXCEPT ![e] = p]
         /\ IF p = "none"
            THEN /\ pc' = [pc EXCEPT ![e] = "NotApplicable"]
                 /\ result' = [result EXCEPT ![e] = "None"]
            ELSE /\ pc' = [pc EXCEPT ![e] = "Validated"]
                 /\ result' = result
    /\ overlap' = Overlaps(e)
    /\ UNCHANGED <<doc, caret, colors, loc, idx, collector, pre, emitted>>

\* line 12: latex::ColorReference::cast(group.syntax().parent()?)?;
Validate(e) ==
    /\ pc[e] = "Located"
    /\ LET p == Parent(doc, loc[e].group)
           c == IF p = "none" THEN "none" ELSE ColorReferenceCast(p) IN
         /\ cls' = [cls EXCEPT ![e] = c]
         /\ IF c = "none"
            THEN /\ pc' = [pc EXCEPT ![e] = "NotApplicable"]
                 /\ result' = [result EXCEPT ![e] = "None"]
            ELSE /\ pc' = [pc EXCEPT ![e] = "Validated"]
                 /\ result' = result
    /\ overlap' = Overlaps(e)
    /\ UNCHANGED <<doc, caret, colors, loc, idx, collector, pre, emitted>>

\* Emit with the range of the whole group, braces included, instead of the
\* located range.
EmitGroupRange(e) ==
    /\ pc[e] = "Validated"
    /\ idx[e] <= Len(colors)
    /\ collector' = [collector EXCEPT
                       ![e] = BuilderColor(@, <<GroupOpen(doc, loc[e].group),
                                                GroupClose(doc, loc[e].group) + 1>>,
                                           colors[idx[e]])]
    /\ idx' = [idx EXCEPT ![e] = @ + 1]
    /\ emitted' = [emitted EXCEPT ![e] = @ + 1]
    /\ overlap' = Overlaps(e)
    /\ UNCHANGED <<doc, caret, colors, pc, loc, cls, result, pre>>

\* Emit that leaves out a name the builder already holds.
EmitDedup(e) ==
    /\ pc[e] = "Validated"
    /\ idx[e] <= Len(colors)
    /\ IF \E k \in 1..Len(collector[e]) : collector[e][k].label = colors[idx[e]]
       THEN UNCHANGED <<collector, emitted>>
       ELSE /\ collector' = [collector EXCEPT
                       ![e] = BuilderColor(@, loc[e].range, colors[idx[e]])]
            /\ emitted' = [emitted EXCEPT ![e] = @ + 1]
    /\ idx' = [idx EXCEPT ![e] = @ + 1]
    /\ overlap' = Overlaps(e)
    /\ UNCHANGED <<doc, caret, colors, pc, loc, cls, result, pre>>

\* Emit that drains the shared list instead of borrowing it.
EmitDrain(e) ==
    /\ pc[e] = "Validated"
    /\ idx[e] <= Len(colors)
    /\ collector' = [collector EXCEPT
                       ![e] = BuilderColor(@, loc[e].range, Head(colors))]
    /\ colors' = Tail(colors)
    /\ emitted' = [emitted EXCEPT ![e] = @ + 1]
    /\ overlap' = Overlaps(e)
    /\ UNCHANGED <<doc, caret, pc, loc, cls, idx, result, pre>>

\* Emit that replaces the builder's items instead of appending to them.
EmitOverwrite(e) ==
    /\ pc[e] = "Validated"
    /\ idx[e] <= Len(colors)
    /\ collector' = [collector EXCEPT
                       ![e] = BuilderColor(IF idx[e] = 1 THEN <<>> ELSE @,
                                           loc[e].range, colors[idx[e]])]
    /\ idx' = [idx EXCEPT ![e] = @ + 1]
    /\ emitted' = [emitted EXCEPT ![e] = @ + 1]
    /\ overlap' = Overlaps(e)
    /\ UNCHANGED <<doc, caret, colors, pc, loc, cls, result, pre>>

\* Emit into one accumulator shared by all evaluations.
EmitShared(e) ==
    /\ pc[e] = "Validated"
    /\ idx[e] <= Len(colors)
    /\ collector' = [collector EXCEPT
                       ![1] = BuilderColor(@, loc[e].range, colors[idx[e]])]
    /\ idx' = [idx EXCEPT ![e] = @ + 1]
    /\ emitted' = [emitted EXCEPT ![e] = @ + 1]
    /\ overlap' = Overlaps(e)
    /\ UNCHANGED <<doc, caret, colors, pc, loc, cls, result, pre>>

\* Emit whose loop stops one entry short of the end of the list.
EmitOffByOne(e) ==
    /\ pc[e] = "Validated"
    /\ idx[e] < Len(colors)
    /\ collector' = [collector EXCEPT
                       ![e] = BuilderColor(@, loc[e].range, colors[idx[e]])]
    /\ idx' = [idx EXCEPT ![e] = @ + 1]
    /\ emitted' = [emitted EXCEPT ![e] = @ + 1]
    /\ overlap' = Overlaps(e)
    /\ UNCHANGED <<doc, caret, colors, pc, loc, cls, result, pre>>

\* lines 14-16: one iteration of for name in &LANGUAGE_DATA.colors
Emit(e) ==
    /\ pc[e] = "Validated"
    /\ idx[e] <= Len(colors)
    /\ collector' = [collector EXCEPT
                       ![e] = BuilderColor(@, loc[e].range, colors[idx[e]])]
    /\ idx' = [idx EXCEPT ![e] = @ + 1]
    /\ emitted' = [emitted EXCEPT ![e] = @ + 1]
    /\ overlap' = Overlaps(e)
    /\ UNCHANGED <<doc, caret, colors, pc, loc, cls, result, pre>>

\* Return that reports None after the enumeration.
ReturnNone(e) ==
    /\ pc[e] = "Validated"
    /\ idx[e] > Len(colors)
    /\ pc' = [pc EXCEPT ![e] = "Enumerated"]
    /\ result' = [result EXCEPT ![e] = "None"]
    /\ overlap' = Overlaps(e)
    /\ UNCHANGED <<doc, caret, colors, loc, cls, idx, collector, pre, emitted>>

\* line 18: the iterator is exhausted; Some(())
Return(e) ==
    /\ pc[e] = "Validated"
    /\ idx[e] > Len(colors)
    /\ pc' = [pc EXCEPT ![e] = "Enumerated"]
    /\ result' = [result EXCEPT ![e] = "Some"]
    /\ overlap' = Overlaps(e)
    /\ UNCHANGED <<doc, caret, colors, loc, cls, idx, collector, pre, emitted>>

Step(e) == Locate(e) \/ Validate(e) \/ Emit(e) \/ Return(e)

Next == \E e \in Evals : Locate(e) \/ Validate(e) \/ Emit(e) \/ Return(e)

Spec == Init /\ [][Next]_vars

\* A call of complete_colors is straight-line code on its caller's thread:
\* every evaluation that can take a step eventually takes it.
\* Termination does not read the builder, so the calls start on fresh builders.
LiveInit == Init /\ collector = [e \in Evals |-> <<>>]

LiveSpec == LiveInit /\ [][Next]_vars /\ \A e \in Evals : WF_vars(Step(e))

\* ------------------------------------------------- the call as one function
\* lines 14-16 run to the end from position i
RECURSIVE EnumerateFrom(_, _, _, _)
EnumerateFrom(items, range, cs, i) ==
    IF i > Len(cs) THEN items
    ELSE EnumerateFrom(BuilderColor(items, range, cs[i]), range, cs, i + 1)

\* complete_colors run alone: its return value and the builder's final items
CompleteColors(d, pos, cs, items) ==
    LET r == FindCurlyGroupWord(d, pos) IN
    IF ~r.some THEN [result |-> "None", items |-> items]
    ELSE IF Parent(d, r.group) = "none"
              \/ ColorReferenceCast(Parent(d, r.group)) = "none"
         THEN [result |-> "None", items |-> items]
         ELSE [result |-> "Some",
               items  |-> EnumerateFrom(items, r.range, cs, 1)]

\* ------------------------------------------------------------------ helpers
Done(e) == pc[e] \in Terminal

\* what the call added to its builder
NewItems(e) == SubSeq(collector[e], Len(pre[e]) + 1, Len(collector[e]))

Labels(items) == [k \in 1..Len(items) |-> items[k].label]

IsPrefix(s, t) == Len(s) <= Len(t) /\ SubSeq(t, 1, Len(s)) = s

Found == FindCurlyGroupWord(doc, caret)

ParentIsColorReference ==
    Found.some /\ Parent(doc, Found.group) = "COLOR_REFERENCE"

\* ------------------------------------------------------------------- claims

\* C1: when the locator returns a (range, group) and the group's parent is a
\* Color Reference, a finished call has appended one candidate per entry of
\* colors, labels equal to colors, every candidate with the located range.
C1_ExactCandidates ==
    \A e \in Evals :
        (Done(e) /\ ParentIsColorReference) =>
            /\ result[e] = "Some"
            /\ Len(NewItems(e)) = Len(colors)
            /\ \A k \in 1..Len(colors) :
                   NewItems(e)[k] = Candidate(Found.range, colors[k])

C1_Witness ==
    \E e \in Evals :
        /\ Done(e) /\ ParentIsColorReference
        /\ Len(colors) = MaxColors
        /\ Len(doc) > 1 /\ Found.group > 1
        /\ Len(NewItems(e)) = MaxColors

\* C2: when the located group's parent is not a Color Reference (a section
\* argument, a bare group, a group without parent), the call returns None
\* and emits nothing.
C2_WrongParentEmitsNothing ==
    \A e \in Evals :
        (Done(e) /\ Found.some /\ ~ParentIsColorReference) =>
            /\ result[e] = "None"
            /\ emitted[e] = 0
            /\ collector[e] = pre[e]

C2_Witness ==
    /\ Found.some
    /\ \E e \in Evals : Done(e) /\ result[e] = "None"
                        /\ Parent(doc, Found.group) = "SECTION"
    /\ Len(colors) > 0

C2_WitnessNoParent ==
    /\ Found.some
    /\ \E e \in Evals : Done(e) /\ result[e] = "None"
                        /\ Parent(doc, Found.group) = "none"

\* C3: when the locator returns None (caret outside every group, in a group
\* of several tokens, or in empty braces), the call returns None and emits
\* nothing, also inside a colour command.
C3_NotLocatedEmitsNothing ==
    \A e \in Evals :
        (Done(e) /\ ~Found.some) =>
            /\ result[e] = "None"
            /\ emitted[e] = 0
            /\ collector[e] = pre[e]
            /\ cls[e] = "unset"

\* \color{} with the caret between the braces
C3_Witness ==
    /\ doc = <<[kind |-> "color", words |-> 0]>>
    /\ caret = 2
    /\ Len(colors) > 0
    /\ \E e \in Evals : Done(e) /\ result[e] = "None"

\* C4 as stated: Some means at least one candidate was emitted, None means
\* nothing was written, for every colors list.
C4_SomeMeansEmitted ==
    \A e \in Evals :
        /\ result[e] = "Some" => (emitted[e] >= 1 /\ Len(NewItems(e)) >= 1)
        /\ result[e] = "None" => (emitted[e] = 0 /\ collector[e] = pre[e])

\* C4 amended: Some means the enumeration ran, one candidate per entry of
\* colors (none for an empty list); None means nothing was written.
C4_SomeMeansEnumerated ==
    \A e \in Evals :
        /\ result[e] = "Some" =>
               (emitted[e] = Len(colors) /\ Len(NewItems(e)) = Len(colors))
        /\ result[e] = "None" => (emitted[e] = 0 /\ collector[e] = pre[e])

C4_Witness ==
    \E e \in Evals : result[e] = "Some" /\ colors = <<>> /\ collector[e] = pre[e]

C4_WitnessNone ==
    \E e \in Evals : result[e] = "None" /\ Len(colors) > 0 /\ Found.some

\* C5: the labels a call emits are colors position by position, duplicates
\* kept in place, and two calls that pass both gates emit the same labels.
C5_StoredOrder ==
    /\ \A e \in Evals :
           result[e] = "Some" => Labels(NewItems(e)) = colors
    /\ \A e \in Evals :
           pc[e] = "Validated" =>
               Labels(NewItems(e)) = SubSeq(colors, 1, idx[e] - 1)

C5_Witness ==
    \E e \in Evals :
        /\ result[e] = "Some"
        /\ Len(colors) >= 2 /\ colors[1] = colors[Len(colors)]
        /\ Labels(NewItems(e)) = colors

C5_WitnessUnsorted ==
    \E e \in Evals :
        result[e] = "Some" /\ Len(colors) >= 2
        /\ colors[1] = "red" /\ colors[2] = "blue"

\* C6: two calls with the same context and fresh builders end with the same
\* return value and the same ordered items.
C6_Idempotent ==
    \A e1, e2 \in Evals :
        (Done(e1) /\ Done(e2) /\ pre[e1] = <<>> /\ pre[e2] = <<>>) =>
            /\ result[e1] = result[e2]
            /\ collector[e1] = collector[e2]

C6_Witness ==
    \E e1, e2 \in Evals :
        /\ e1 # e2 /\ Done(e1) /\ Done(e2)
        /\ pre[e1] = <<>> /\ pre[e2] = <<>>
        /\ result[e1] = "Some" /\ Len(collector[e1]) = MaxColors
        /\ collector[e1] = collector[e2]

\* C7: locate, then validate, then enumerate: nothing is emitted before the
\* locator returned a group and the cast accepted its parent, the cast is
\* not evaluated after a None of the locator, and a call that is
\* NotApplicable takes no further step.
C7_StateOrder ==
    \A e \in Evals :
        /\ emitted[e] > 0 => (loc[e].some /\ cls[e] = "COLOR_REFERENCE")
        /\ Len(collector[e]) # Len(pre[e]) =>
               (loc[e].some /\ cls[e] = "COLOR_REFERENCE")
        /\ cls[e] # "unset" => loc[e].some
        /\ pc[e] = "Start" => (cls[e] = "unset" /\ emitted[e] = 0)
        /\ pc[e] = "Located" => (loc[e].some /\ cls[e] = "unset" /\ emitted[e] = 0)
        /\ pc[e] \in {"Validated", "Enumerated"} =>
               (loc[e].some /\ cls[e] = "COLOR_REFERENCE")

C7_GateOrder ==
    [][/\ C7_StateOrder'
       /\ \A e \in Evals :
              pc[e] = "NotApplicable" =>
                  /\ pc'[e] = pc[e] /\ cls'[e] = cls[e] /\ loc'[e] = loc[e]
                  /\ emitted'[e] = emitted[e] /\ collector'[e] = collector[e]
                  /\ result'[e] = result[e]]_vars

C7_Witness ==
    \E e1, e2 \in Evals :
        /\ pc[e1] = "NotApplicable" /\ loc[e1].some /\ cls[e1] = "none"
        /\ pc[e2] = "Located"

C7_WitnessEmitted ==
    \E e \in Evals : pc[e] = "Validated" /\ emitted[e] > 0

\* C8: a call changes nothing but its builder, and that only by appending:
\* tree, caret and colors stay as they are, the items the builder held
\* before the call stay as a prefix, and a None leaves the builder as it was.
C8_FrameState ==
    \A e \in Evals :
        /\ IsPrefix(pre[e], collector[e])
        /\ result[e] = "None" => collector[e] = pre[e]

C8_OnlyAppends ==
    [][/\ doc' = doc /\ caret' = caret /\ colors' = colors
       /\ \A e \in Evals : IsPrefix(collector[e], collector'[e])
       /\ C8_FrameState']_vars

C8_Witness ==
    \E e \in Evals :
        /\ result[e] = "Some" /\ pre[e] # <<>>
        /\ Len(collector[e]) > Len(pre[e])

C8_WitnessNone ==
    \E e \in Evals : result[e] = "None" /\ pre[e] # <<>> /\ Len(colors) > 0

\* C9: under every interleaving, each evaluation's builder ends with the
\* items a run of that evaluation alone produces, and its return value too;
\* no builder holds a candidate of another evaluation.
C9_AsIfAlone ==
    \A e \in Evals :
        Done(e) =>
            /\ collector[e] = CompleteColors(doc, caret, colors, pre[e]).items
            /\ result[e] = CompleteColors(doc, caret, colors, pre[e]).result

C9_Witness ==
    /\ overlap
    /\ \A e \in Evals : Done(e) /\ result[e] = "Some"
    /\ Len(colors) = MaxColors
    /\ \E e1, e2 \in Evals : pre[e1] # pre[e2]

\* C10: every call terminates in Enumerated (Some) or NotApplicable (None),
\* and a call that ends in Enumerated has made exactly Len(colors) emissions.
AllTerminated == \A e \in Evals : Done(e)

C10_Terminates ==
    /\ <>AllTerminated
    /\ [](\A e \in Evals :
            /\ pc[e] = "Enumerated" =>
                   (result[e] = "Some" /\ emitted[e] = Len(colors))
            /\ pc[e] = "NotApplicable" => result[e] = "None"
            /\ ~Done(e) => result[e] = "pending")

C10_Witness ==
    \E e \in Evals :
        pc[e] = "Enumerated" /\ emitted[e] = MaxColors /\ Len(colors) = MaxColors

C10_WitnessNotApplicable ==
    \E e \in Evals : pc[e] = "NotApplicable" /\ emitted[e] = 0
====
